---- MODULE Spec2Model ----
(***************************************************************************)
(* Model of soc/ipl/main.c: the IPL's boot sequence (main), the packed     *)
(* 4-bit framebuffer pixel writer (lcd_pset) and the cache flush request   *)
(* (cache_flush).                                                          *)
(*                                                                         *)
(* Memory behind lcdfb is held sparsely: fb maps a byte offset from lcdfb  *)
(* to its value, and an offset that is absent holds 0.  Offsets at or      *)
(* above FB_BYTES are the memory that follows the calloc'ed buffer.        *)
(***************************************************************************)
EXTENDS Integers, Sequences, FiniteSets, TLC

VARIABLES
    pc,            \* position of main()
    lcdfb,         \* uint8_t *lcdfb (NULL or the address calloc returned)
    fb,            \* bytes behind lcdfb, sparse (offset -> value, absent = 0)
    gfx_fbaddr,    \* GFX_REG(GFX_FBADDR_REG)
    pset_cb,       \* pixel callback registered with UG_Init
    fore_color,    \* ugui foreground colour
    la,            \* uintptr_t la
    max_app_addr,  \* uintptr_t max_app_addr
    load_res,      \* what load_new_app reported: <<>> before it returns
    heap_start,    \* heap start set by sbrk_app_set_heap_start: <<>> while unset
    flush_reg,     \* last cache flush register write <<address, value>>
    trace,         \* calls of main, in order: alloc, load, heap, entry, return, flush
    p,             \* int p
    buf,           \* char buf[20], as the string sprintf left in it
    drawn,         \* the last counter draw: counter before, after, text drawn,
                   \* and the polling calls made since the draw before it
    i,             \* inner loop index
    polls,         \* transport polling calls since the last counter draw
    msc_on,        \* usb_msc_on() has been called
    iters,         \* outer iterations started
    calls          \* lcd_pset calls made by the GUI layer, with the memory before

vars == <<pc, lcdfb, fb, gfx_fbaddr, pset_cb, fore_color, la, max_app_addr,
          load_res, heap_start, flush_reg, trace, p, buf, drawn, i, polls,
          msc_on, iters, calls>>

bootVars == <<gfx_fbaddr, pset_cb, fore_color, la, max_app_addr, load_res,
              heap_start, flush_reg, trace, p, buf, drawn, i, polls, msc_on,
              iters>>

(***************************************************************************)
(* Program constants.  MACH_RAM_START and MACH_FLUSH_REGION are those of   *)
(* gloss/mach_defines.h, the colours those of ugui.h (0xRRGGBB).           *)
(***************************************************************************)
NULL == 0
MACH_RAM_START == 1073741824
MACH_FLUSH_REGION == 1090519040
XMAX == 480
YMAX == 320
STRIDE == 512
FB_ROWS == 320
FLUSH_W == 480
NPOLL == 500
CHAR_W == 12
CHAR_H == 16
INT_MAX == 2147483647
INT_MIN == -2147483647 - 1
FB_BYTES == (FB_ROWS * STRIDE) \div 2
FLUSH_BYTES == (FB_ROWS * FLUSH_W) \div 2

(***************************************************************************)
(* Bounds of the model                                                     *)
(***************************************************************************)
MaxCalls == 2
MaxIter == 2

(***************************************************************************)
(* Bit operations on naturals                                              *)
(***************************************************************************)
RECURSIVE BitAnd(_, _)
BitAnd(a, b) ==
    IF a = 0 \/ b = 0 THEN 0
    ELSE (IF a % 2 = 1 /\ b % 2 = 1 THEN 1 ELSE 0) + 2 * BitAnd(a \div 2, b \div 2)

RECURSIVE BitOr(_, _)
BitOr(a, b) ==
    IF a = 0 THEN b
    ELSE IF b = 0 THEN a
    ELSE (IF a % 2 = 1 \/ b % 2 = 1 THEN 1 ELSE 0) + 2 * BitOr(a \div 2, b \div 2)

Bit(c, k) == (c \div (2 ^ k)) % 2

(***************************************************************************)
(* Memory behind lcdfb                                                     *)
(***************************************************************************)
Load(mem, a) == IF a \in DOMAIN mem THEN mem[a] ELSE 0

Store(mem, a, v) ==
    IF v = 0
    THEN [b \in (DOMAIN mem) \ {a} |-> mem[b]]
    ELSE [b \in (DOMAIN mem) \cup {a} |-> IF b = a THEN v ELSE mem[b]]

(***************************************************************************)
(* lcd_pset                                                                *)
(***************************************************************************)
\* lines 41-47: the 4-bit value stored for colour c
Encode(c) ==
    LET n0 == 0
        n1 == IF BitAnd(c, 2 ^ 7)  # 0 THEN BitOr(n0, 4) ELSE n0
        n2 == IF BitAnd(c, 2 ^ 15) # 0 THEN BitOr(n1, 2) ELSE n1
        n3 == IF BitAnd(c, 2 ^ 23) # 0 THEN BitOr(n2, 1) ELSE n2
        n4 == IF BitAnd(c, 2 ^ 6)  # 0 THEN BitOr(n3, 8) ELSE n3
        n5 == IF BitAnd(c, 2 ^ 14) # 0 THEN BitOr(n4, 8) ELSE n4
        n6 == IF BitAnd(c, 2 ^ 22) # 0 THEN BitOr(n5, 8) ELSE n5
    IN  n6

\* the bounds test with the row stride in place of the width
Rejected_stride(ptr, x, y) ==
    \/ ptr = NULL
    \/ x < 0 \/ x > STRIDE
    \/ y < 0 \/ y > YMAX

\* lines 38-40: the early returns
Rejected(ptr, x, y) ==
    \/ ptr = NULL
    \/ x < 0 \/ x > XMAX
    \/ y < 0 \/ y > YMAX

\* the byte offset computed with the display width as the row stride
PixIndex_width(x, y) == (x + y * XMAX) \div 2

\* lines 48, 54: the byte offset of pixel (x, y)
PixIndex(x, y) == (x + y * STRIDE) \div 2

\* the byte written back without the read-modify-write
NewByte_blind(o, x, n) ==
    IF BitAnd(x, 1) # 0 THEN (n * 16) % 256 ELSE n % 256

\* the byte written back with the old byte shifted instead of masked
NewByte_shift(o, x, n) ==
    IF BitAnd(x, 1) # 0
    THEN BitOr(o \div 16, (n * 16)) % 256
    ELSE BitOr((o * 16) % 256, n) % 256

\* the byte written back with the nibbles chosen by the opposite parity
NewByte_swap(o, x, n) ==
    IF BitAnd(x, 1) # 0
    THEN BitOr(BitAnd(o, 240), n) % 256
    ELSE BitOr(BitAnd(o, 15), (n * 16)) % 256

\* lines 49-53: the byte written back, as a uint8_t
NewByte(o, x, n) ==
    IF BitAnd(x, 1) # 0
    THEN BitOr(BitAnd(o, 15), (n * 16)) % 256
    ELSE BitOr(BitAnd(o, 240), n) % 256

\* lines 37-55
lcd_pset(ptr, mem, x, y, c) ==
    IF Rejected(ptr, x, y) THEN mem
    ELSE LET a == PixIndex(x, y)
             n == Encode(c)
             o == Load(mem, a)
         IN  Store(mem, a, NewByte(o, x, n))

(***************************************************************************)
(* Inputs                                                                  *)
(***************************************************************************)

\* addresses calloc(320*512/2, 1) can return; NULL when the heap is exhausted
HeapAddrs == {MACH_RAM_START + 1048576}
CallocResults == {NULL} \cup HeapAddrs

EmptyMem == [b \in {} |-> 0]

\* calloc zero-fills the buffer; the bytes that follow it hold whatever the
\* heap holds there
MemAfterCalloc(ptr) ==
    IF ptr = NULL THEN {EmptyMem}
    ELSE {EmptyMem, [b \in {FB_BYTES} |-> 165]}

\* UG_S16 coordinates and UG_COLOR values the GUI layer passes to the callback
XS == {-1, 0, 1, XMAX, XMAX + 1}
YS == {-32768, 0, YMAX, YMAX + 1}
C_WHITE == 16777215
C_RED == 16711680
C_GREEN == 65280
CS == {0, C_RED, C_GREEN}

\* colours over the bits lcd_pset tests and three it does not
ColorBits == {0, 5, 6, 7, 14, 15, 16, 22, 23}
RECURSIVE SumPow(_)
SumPow(S) ==
    IF S = {} THEN 0
    ELSE LET k == CHOOSE e \in S : TRUE IN 2 ^ k + SumPow(S \ {k})
AllColors == {SumPow(S) : S \in SUBSET ColorBits}

(***************************************************************************)
(* The GUI layer calling the registered pixel callback                     *)
(***************************************************************************)
BootIdle ==
    /\ la = 0 /\ max_app_addr = 0 /\ load_res = <<>> /\ heap_start = <<>>
    /\ flush_reg = <<>> /\ trace = <<>>
    /\ p = 0 /\ buf = <<>> /\ drawn = <<>> /\ i = 0
    /\ polls = [usb |-> 0, tud |-> 0]
    /\ msc_on = FALSE /\ iters = 0

\* main inside its first UG_PutString call (line 96), the GUI layer about to
\* call the callback: the framebuffer is allocated or not, an application was
\* loaded, entered and has returned
InitPset ==
    /\ pc = "gui"
    /\ lcdfb \in CallocResults
    /\ fb \in MemAfterCalloc(lcdfb)
    /\ gfx_fbaddr = lcdfb % (2 ^ 23)
    /\ pset_cb = "lcd_pset"
    /\ fore_color = C_WHITE
    /\ calls = <<>>
    /\ la = MACH_RAM_START + 8192
    /\ max_app_addr = MACH_RAM_START + 40960
    /\ load_res = <<[ok |-> TRUE, entry |-> la, max |-> max_app_addr]>>
    /\ heap_start = <<max_app_addr>>
    /\ flush_reg = <<>>
    /\ trace = <<<<"alloc", lcdfb>>, <<"load">>, <<"heap", max_app_addr>>,
                  <<"entry", la, 0, NULL>>, <<"return">>>>
    /\ p = 0 /\ buf = <<>> /\ drawn = <<>> /\ i = 0
    /\ polls = [usb |-> 0, tud |-> 0]
    /\ msc_on = FALSE /\ iters = 0

\* one call of the callback by the GUI layer
PsetCall ==
    /\ pc = "gui"
    /\ Len(calls) < MaxCalls
    /\ \E x \in XS, y \in YS, c \in CS :
          /\ fb' = lcd_pset(lcdfb, fb, x, y, c)
          /\ calls' = Append(calls, [x |-> x, y |-> y, c |-> c, before |-> fb])
    /\ UNCHANGED <<pc, lcdfb, bootVars>>

NextPset == PsetCall
SpecPset == InitPset /\ [][NextPset]_vars

\* one call of the callback, over every colour of AllColors
PsetColor ==
    /\ pc = "gui"
    /\ calls = <<>>
    /\ \E x \in {0, 1}, c \in AllColors :
          /\ fb' = lcd_pset(lcdfb, fb, x, 0, c)
          /\ calls' = Append(calls, [x |-> x, y |-> 0, c |-> c, before |-> fb])
    /\ UNCHANGED <<pc, lcdfb, bootVars>>

NextColor == PsetColor
SpecColor == InitPset /\ [][NextColor]_vars

(***************************************************************************)
(* Claims about lcd_pset                                                   *)
(***************************************************************************)
\* memory after the k-th logged call
After(k) == IF k < Len(calls) THEN calls[k + 1].before ELSE fb

LowNib(v) == v % 16
HighNib(v) == v \div 16

\* C4: for x in 0..480, y in 0..320 and an allocated framebuffer, one lcd_pset
\* call leaves every byte other than the one at (x + y*512)/2 as it was, and in
\* that byte it leaves the nibble not selected by the parity of x as it was.
C4_FrameEffect ==
    \A k \in 1..Len(calls) :
        LET r == calls[k]
            a == (r.x + r.y * 512) \div 2
            m0 == r.before
            m1 == After(k)
        IN  (lcdfb # NULL /\ r.x \in 0..480 /\ r.y \in 0..320) =>
              /\ \A b \in (DOMAIN m0) \cup (DOMAIN m1) :
                    b # a => Load(m1, b) = Load(m0, b)
              /\ r.x % 2 = 0 => HighNib(Load(m1, a)) = HighNib(Load(m0, a))
              /\ r.x % 2 = 1 => LowNib(Load(m1, a)) = LowNib(Load(m0, a))

\* an accepted call changed a byte of the buffer whose other nibble was not 0
C4_Witness ==
    \E k \in 1..Len(calls) :
        LET r == calls[k]
            a == (r.x + r.y * 512) \div 2
        IN  /\ lcdfb # NULL /\ r.x \in 0..480 /\ r.y \in 0..320
            /\ a < (320 * 512) \div 2
            /\ Load(After(k), a) # Load(r.before, a)
            /\ r.x % 2 = 1
            /\ LowNib(Load(r.before, a)) # 0

\* C5: a call with x < 0, x > 480, y < 0 or y > 320, or made while lcdfb is
\* NULL, writes nothing: the memory after it equals the memory before it.
C5_RejectedNoWrite ==
    \A k \in 1..Len(calls) :
        LET r == calls[k]
        IN  (lcdfb = NULL \/ r.x < 0 \/ r.x > 480 \/ r.y < 0 \/ r.y > 320) =>
              After(k) = r.before

\* with a framebuffer allocated and holding a pixel, a call one past the right
\* edge was made
C5_Witness ==
    \E k \in 1..Len(calls) :
        /\ lcdfb # NULL
        /\ calls[k].x = 481 /\ calls[k].y \in 0..320
        /\ calls[k].before # EmptyMem

\* C7: a call repeated with the same x, y and colour leaves the memory as the
\* first of the two calls left it.
C7_Idempotent ==
    \A k \in 1..(Len(calls) - 1) :
        LET r1 == calls[k]
            r2 == calls[k + 1]
        IN  (r1.x = r2.x /\ r1.y = r2.y /\ r1.c = r2.c) =>
              After(k + 1) = After(k)

\* an accepted call that changed memory was repeated
C7_Witness ==
    \E k \in 1..(Len(calls) - 1) :
        LET r1 == calls[k]
            r2 == calls[k + 1]
        IN  /\ r1.x = r2.x /\ r1.y = r2.y /\ r1.c = r2.c
            /\ After(k) # r1.before
            /\ r1.x % 2 = 1

\* the byte two adjacent pixels share holds both encodings after both writes
PairPacked(k, maxEven) ==
    LET r1 == calls[k]
        r2 == calls[k + 1]
        ev == IF r1.x % 2 = 0 THEN r1 ELSE r2
        od == IF r1.x % 2 = 0 THEN r2 ELSE r1
        a == (ev.x + ev.y * 512) \div 2
    IN  ( /\ lcdfb # NULL
          /\ ev.x % 2 = 0 /\ ev.x \in 0..maxEven
          /\ od.x = ev.x + 1
          /\ ev.y = od.y /\ ev.y \in 0..320 ) =>
            /\ LowNib(Load(After(k + 1), a)) = Encode(ev.c)
            /\ HighNib(Load(After(k + 1), a)) = Encode(od.c)

\* C8 as stated: for every even x in 0..480 and y in 0..320, writing (x,y) with
\* c1 and (x+1,y) with c2, in either order, leaves the byte at (x + y*512)/2
\* with low nibble Encode(c1) and high nibble Encode(c2).
C8_AdjacentAsStated ==
    \A k \in 1..(Len(calls) - 1) : PairPacked(k, 480)

\* C8 amended: the same for every even x with x + 1 <= 480, so that the write
\* of (x+1,y) is accepted too.
C8_Adjacent ==
    \A k \in 1..(Len(calls) - 1) : PairPacked(k, 479)

\* both pixels of a pair were written with colours of different encodings
C8_Witness ==
    \E k \in 1..(Len(calls) - 1) :
        LET r1 == calls[k]
            r2 == calls[k + 1]
        IN  /\ lcdfb # NULL
            /\ r1.x = 1 /\ r2.x = 0 /\ r1.y = r2.y /\ r1.y = 320
            /\ Encode(r1.c) # Encode(r2.c)
            /\ After(k + 1) # After(k)

\* the nibble the k-th logged call left for its pixel
StoredNib(k) ==
    LET r == calls[k]
        v == Load(After(k), (r.x + r.y * 512) \div 2)
    IN  IF r.x % 2 = 1 THEN HighNib(v) ELSE LowNib(v)

\* C6 as stated: with the colour laid out 0xRRGGBB, the stored nibble has bit 2
\* set exactly when the red channel's top bit (bit 23) is set, bit 1 exactly
\* when the green channel's top bit (bit 15) is set, bit 0 exactly when the blue
\* channel's top bit (bit 7) is set, and bit 3 exactly when one of the channels'
\* second-highest bits (22, 14, 6) is set.
C6_EncodingAsStated ==
    \A k \in 1..Len(calls) :
        LET r == calls[k]
            n == StoredNib(k)
        IN  (lcdfb # NULL /\ r.x \in 0..480 /\ r.y \in 0..320) =>
              /\ Bit(n, 2) = Bit(r.c, 23)
              /\ Bit(n, 1) = Bit(r.c, 15)
              /\ Bit(n, 0) = Bit(r.c, 7)
              /\ (Bit(n, 3) = 1) <=>
                    (Bit(r.c, 22) = 1 \/ Bit(r.c, 14) = 1 \/ Bit(r.c, 6) = 1)

(***************************************************************************)
(* 32-bit unsigned arithmetic.  A uint32_t is held as the 32-bit two's-    *)
(* complement integer with the same bit pattern, so that every value fits  *)
(* the model checker's integers: 0x80000000 and above are negative.        *)
(***************************************************************************)
Add32(a, b) ==
    IF a > 0 /\ b > 0 /\ a > INT_MAX - b THEN (a + INT_MIN) + (b + INT_MIN)
    ELSE IF a < 0 /\ b < 0 /\ a < INT_MIN - b THEN (a - INT_MIN) + (b - INT_MIN)
    ELSE a + b

Sub32(a, b) == IF b = INT_MIN THEN Add32(a, INT_MIN) ELSE Add32(a, -b)

\* v & ~3
ClearLow2(v) == v - (v % 4)

\* unsigned a <= b
Le32(a, b) ==
    IF (a >= 0) = (b >= 0) THEN a <= b ELSE a >= 0

(***************************************************************************)
(* cache_flush                                                             *)
(***************************************************************************)
\* the register chosen without the & ~3
cache_flush_nomask(addr_start, addr_end) ==
    <<Add32(Sub32(addr_start, MACH_RAM_START), MACH_FLUSH_REGION),
      Sub32(addr_end, MACH_RAM_START)>>

\* lines 31-34: the register written and the value written to it
cache_flush(addr_start, addr_end) ==
    <<Add32(Sub32(ClearLow2(addr_start), MACH_RAM_START), MACH_FLUSH_REGION),
      Sub32(addr_end, MACH_RAM_START)>>

\* the RAM offsets [from, to) a flush register write asks to flush
FlushFrom(w) == Sub32(w[1], MACH_FLUSH_REGION)
FlushTo(w) == w[2]

\* void* arguments, as 32-bit patterns: unaligned, below, at and above the RAM
\* base, the framebuffer and its flushed end, and the ends of the 32-bit range
FlushArgs ==
    {0, 1, 2, 3, 4, 7,
     MACH_RAM_START - 1, MACH_RAM_START, MACH_RAM_START + 1,
     MACH_RAM_START + 1048576, MACH_RAM_START + 1048576 + 3,
     MACH_RAM_START + 1048576 + FLUSH_BYTES,
     INT_MAX, INT_MIN, -1, -4}

InitFlush ==
    /\ pc = "call"
    /\ lcdfb \in HeapAddrs
    /\ fb = EmptyMem
    /\ gfx_fbaddr = lcdfb % (2 ^ 23)
    /\ pset_cb = "lcd_pset"
    /\ fore_color = C_WHITE
    /\ calls = <<>>
    /\ la = MACH_RAM_START + 8192
    /\ max_app_addr = MACH_RAM_START + 40960
    /\ load_res = <<[ok |-> TRUE, entry |-> la, max |-> max_app_addr]>>
    /\ heap_start = <<max_app_addr>>
    /\ flush_reg = <<>>
    /\ trace = <<<<"alloc", lcdfb>>, <<"load">>, <<"heap", max_app_addr>>,
                  <<"entry", la, 0, NULL>>, <<"return">>>>
    /\ p = 0 /\ buf = <<>> /\ drawn = <<>> /\ i = 0
    /\ polls = [usb |-> 0, tud |-> 0]
    /\ msc_on = FALSE /\ iters = 0

\* one call cache_flush(addr_start, addr_end), and its return
FlushCall ==
    /\ pc = "call"
    /\ \E addr_start \in FlushArgs, addr_end \in FlushArgs :
          /\ flush_reg' = cache_flush(addr_start, addr_end)
          /\ trace' = Append(trace, <<"flush">> \o flush_reg'
                                      \o <<addr_start, addr_end>>)
    /\ pc' = "returned"
    /\ UNCHANGED <<lcdfb, fb, gfx_fbaddr, pset_cb, fore_color, la,
                   max_app_addr, load_res, heap_start, p, buf, drawn, i,
                   polls, msc_on, iters, calls>>

NextFlush == FlushCall
SpecFlush == InitFlush /\ [][NextFlush]_vars

(***************************************************************************)
(* sprintf(buf, "%d", p)                                                   *)
(***************************************************************************)
DigitChar(d) == SubSeq("0123456789", d + 1, d + 1)

\* the digits of n <= 0, most significant first; none for 0
RECURSIVE NegDigits(_)
NegDigits(n) ==
    IF n = 0 THEN ""
    ELSE LET d == (10 - (n % 10)) % 10
         IN  NegDigits((n + d) \div 10) \o DigitChar(d)

RECURSIVE PosDigits(_)
PosDigits(n) ==
    IF n = 0 THEN "" ELSE PosDigits(n \div 10) \o DigitChar(n % 10)

FormatInt(n) ==
    IF n = 0 THEN "0"
    ELSE IF n < 0 THEN "-" \o NegDigits(n)
    ELSE PosDigits(n)

(***************************************************************************)
(* UG_PutString: the GUI layer draws every pixel of each character cell    *)
(* through the registered callback, a glyph pixel in the foreground colour *)
(* and the others in the background colour.  The model draws the first     *)
(* pixel of the first cell and the last pixel of the last cell; glyph is   *)
(* the one of the two that the font sets.                                  *)
(***************************************************************************)
C_BLACK == 0

TextLast(x0, y0, len) ==
    LET per == (XMAX - 1 - x0) \div CHAR_W
        k == len - 1
    IN  <<x0 + (k % per) * CHAR_W + CHAR_W - 1,
          y0 + (k \div per) * CHAR_H + CHAR_H - 1>>

UG_PutString(ptr, mem, x0, y0, len, fc, glyph) ==
    LET e == TextLast(x0, y0, len)
        m1 == lcd_pset(ptr, mem, x0, y0, IF glyph = 1 THEN fc ELSE C_BLACK)
    IN  lcd_pset(ptr, m1, e[1], e[2], IF glyph = 2 THEN fc ELSE C_BLACK)

(***************************************************************************)
(* main                                                                    *)
(***************************************************************************)
\* what load_new_app can report
AppEntries == {MACH_RAM_START + 8192}
AppMaxAddrs == {MACH_RAM_START + 40960, MACH_RAM_START + 524288}
LoadResults ==
    {[ok |-> TRUE, entry |-> e, max |-> m] : e \in AppEntries, m \in AppMaxAddrs}
    \cup {[ok |-> FALSE, entry |-> 0, max |-> 0]}

\* values an int that was never initialised can hold
IntSamples == {-1, 9, INT_MAX - 1, INT_MAX}

Init ==
    /\ pc = "start"
    /\ lcdfb = NULL
    /\ fb = EmptyMem
    /\ gfx_fbaddr = 0
    /\ pset_cb = "none"
    /\ fore_color = 0
    /\ calls = <<>>
    /\ BootIdle

\* lines 63-67
AllocFramebuffer ==
    /\ pc = "start"
    /\ \E ptr \in CallocResults :
          /\ lcdfb' = ptr
          /\ fb' \in MemAfterCalloc(ptr)
          /\ gfx_fbaddr' = ptr % (2 ^ 23)
          /\ trace' = Append(trace, <<"alloc", ptr>>)
    /\ pc' = "uginit"
    /\ UNCHANGED <<pset_cb, fore_color, la, max_app_addr, load_res, heap_start,
                   flush_reg, p, buf, drawn, i, polls, msc_on, iters, calls>>

\* the GUI set-up allocating the framebuffer a second time
InitGui_realloc ==
    /\ pc = "uginit"
    /\ \E ptr \in CallocResults :
          /\ lcdfb' = ptr
          /\ fb' \in MemAfterCalloc(ptr)
          /\ gfx_fbaddr' = ptr % (2 ^ 23)
          /\ trace' = Append(trace, <<"alloc", ptr>>)
    /\ pset_cb' = "lcd_pset"
    /\ fore_color' = C_WHITE
    /\ pc' = "load"
    /\ UNCHANGED <<la, max_app_addr, load_res, heap_start, flush_reg, p, buf,
                   drawn, i, polls, msc_on, iters, calls>>

\* lines 68-83
InitGui ==
    /\ pc = "uginit"
    /\ pset_cb' = "lcd_pset"
    /\ fore_color' = C_WHITE
    /\ pc' = "load"
    /\ UNCHANGED <<lcdfb, fb, gfx_fbaddr, la, max_app_addr, load_res,
                   heap_start, flush_reg, trace, p, buf, drawn, i, polls,
                   msc_on, iters, calls>>

\* lines 85-87: load_new_app returns, with an image loaded or with a failure
LoadApp ==
    /\ pc = "load"
    /\ \E r \in LoadResults :
          /\ la' = r.entry
          /\ max_app_addr' = r.max
          /\ load_res' = <<r>>
    /\ trace' = Append(trace, <<"load">>)
    /\ pc' = "heap"
    /\ UNCHANGED <<lcdfb, fb, gfx_fbaddr, pset_cb, fore_color, heap_start,
                   flush_reg, p, buf, drawn, i, polls, msc_on, iters, calls>>

\* line 86: load_new_app does not return
LoadHalts ==
    /\ pc = "load"
    /\ load_res' = <<[ok |-> FALSE, entry |-> 0, max |-> 0]>>
    /\ trace' = Append(trace, <<"load">>)
    /\ pc' = "halted"
    /\ UNCHANGED <<lcdfb, fb, gfx_fbaddr, pset_cb, fore_color, la,
                   max_app_addr, heap_start, flush_reg, p, buf, drawn, i,
                   polls, msc_on, iters, calls>>

\* the heap start set to the entry address
SetHeapStart_la ==
    /\ pc = "heap"
    /\ heap_start' = <<la>>
    /\ trace' = Append(trace, <<"heap", la>>)
    /\ pc' = "call"
    /\ UNCHANGED <<lcdfb, fb, gfx_fbaddr, pset_cb, fore_color, la,
                   max_app_addr, load_res, flush_reg, p, buf, drawn, i, polls,
                   msc_on, iters, calls>>

\* line 88
SetHeapStart ==
    /\ pc = "heap"
    /\ heap_start' = <<max_app_addr>>
    /\ trace' = Append(trace, <<"heap", max_app_addr>>)
    /\ pc' = "call"
    /\ UNCHANGED <<lcdfb, fb, gfx_fbaddr, pset_cb, fore_color, la,
                   max_app_addr, load_res, flush_reg, p, buf, drawn, i, polls,
                   msc_on, iters, calls>>

\* the entry point taken from max_app_addr
CallApp_max ==
    /\ pc = "call"
    /\ trace' = Append(trace, <<"entry", max_app_addr, 0, NULL>>)
    /\ pc' = "app"
    /\ UNCHANGED <<lcdfb, fb, gfx_fbaddr, pset_cb, fore_color, la,
                   max_app_addr, load_res, heap_start, flush_reg, p, buf,
                   drawn, i, polls, msc_on, iters, calls>>

\* lines 89-91: maincall(0, NULL) is entered
CallApp ==
    /\ pc = "call"
    /\ trace' = Append(trace, <<"entry", la, 0, NULL>>)
    /\ pc' = "app"
    /\ UNCHANGED <<lcdfb, fb, gfx_fbaddr, pset_cb, fore_color, la,
                   max_app_addr, load_res, heap_start, flush_reg, p, buf,
                   drawn, i, polls, msc_on, iters, calls>>

\* the return of the application followed by a reset of the heap start
AppReturns_resetheap ==
    /\ pc = "app"
    /\ heap_start' = <<0>>
    /\ trace' = Append(Append(trace, <<"return">>), <<"heap", 0>>)
    /\ pc' = "hello"
    /\ UNCHANGED <<lcdfb, fb, gfx_fbaddr, pset_cb, fore_color, la,
                   max_app_addr, load_res, flush_reg, p, buf, drawn, i, polls,
                   msc_on, iters, calls>>

\* line 91: the application returns
AppReturns ==
    /\ pc = "app"
    /\ trace' = Append(trace, <<"return">>)
    /\ pc' = "hello"
    /\ UNCHANGED <<lcdfb, fb, gfx_fbaddr, pset_cb, fore_color, la,
                   max_app_addr, load_res, heap_start, flush_reg, p, buf,
                   drawn, i, polls, msc_on, iters, calls>>

\* line 91: the application never returns
AppNeverReturns ==
    /\ pc = "app"
    /\ pc' = "never"
    /\ UNCHANGED <<lcdfb, fb, gfx_fbaddr, pset_cb, fore_color, la,
                   max_app_addr, load_res, heap_start, flush_reg, trace, p,
                   buf, drawn, i, polls, msc_on, iters, calls>>

\* line 96: UG_PutString(0, 0, "Hello world!")
DrawHello ==
    /\ pc = "hello"
    /\ \E glyph \in {1, 2} :
          fb' = UG_PutString(lcdfb, fb, 0, 0, 12, fore_color, glyph)
    /\ pc' = "narf"
    /\ UNCHANGED <<lcdfb, bootVars, calls>>

\* line 97: UG_PutString(0, 320-20, "Narf.")
DrawNarf ==
    /\ pc = "narf"
    /\ \E glyph \in {1, 2} :
          fb' = UG_PutString(lcdfb, fb, 0, 320 - 20, 5, fore_color, glyph)
    /\ pc' = "test"
    /\ UNCHANGED <<lcdfb, bootVars, calls>>

\* lines 98-100: the 106-character text in green, then usb_msc_on()
DrawTest ==
    /\ pc = "test"
    /\ fore_color' = C_GREEN
    /\ \E glyph \in {1, 2} :
          fb' = UG_PutString(lcdfb, fb, 0, 16, 106, C_GREEN, glyph)
    /\ msc_on' = TRUE
    /\ pc' = "loop"
    /\ UNCHANGED <<lcdfb, gfx_fbaddr, pset_cb, la, max_app_addr, load_res,
                   heap_start, flush_reg, trace, p, buf, drawn, i, polls,
                   iters, calls>>

\* line 102: the value p++ reads.  p is never initialised, so the first read
\* finds any int.
ReadValues(first, v) == IF first THEN IntSamples ELSE {v}

\* line 102: the value p++ leaves.  INT_MAX + 1 overflows the int, which leaves
\* any int.
IncValues(o) == IF o = INT_MAX THEN IntSamples \cup {INT_MIN} ELSE {o + 1}

\* lines 102-105: count, format, draw in red
CountAndDraw ==
    /\ pc = "loop"
    /\ iters < MaxIter
    /\ \E o \in ReadValues(iters = 0, p) :
       \E n \in IncValues(o) :
       \E glyph \in {1, 2} :
          /\ p' = n
          /\ buf' = FormatInt(n)
          /\ fb' = UG_PutString(lcdfb, fb, 48, 64, Len(FormatInt(n)), C_RED, glyph)
          /\ drawn' = <<[before |-> o, after |-> n, text |-> FormatInt(n),
                          since |-> polls]>>
    /\ fore_color' = C_RED
    /\ iters' = iters + 1
    /\ polls' = [usb |-> 0, tud |-> 0]
    /\ pc' = "flush"
    /\ UNCHANGED <<lcdfb, gfx_fbaddr, pset_cb, la, max_app_addr, load_res,
                   heap_start, flush_reg, trace, i, msc_on, calls>>

\* lines 106-107: cache_flush(lcdfb, lcdfb+320*480/2), then i=0
FlushFramebuffer ==
    /\ pc = "flush"
    /\ flush_reg' = cache_flush(lcdfb, Add32(lcdfb, FLUSH_BYTES))
    /\ trace' = Append(trace, <<"flush">> \o flush_reg'
                                \o <<lcdfb, Add32(lcdfb, FLUSH_BYTES)>>)
    /\ i' = 0
    /\ pc' = "usb"
    /\ UNCHANGED <<lcdfb, fb, gfx_fbaddr, pset_cb, fore_color, la,
                   max_app_addr, load_res, heap_start, p, buf, drawn, polls,
                   msc_on, iters, calls>>

\* the inner loop's exit leaving the outer loop
UsbPoll_break ==
    /\ pc = "usb"
    /\ IF i < NPOLL
       THEN /\ polls' = [polls EXCEPT !.usb = @ + 1]
            /\ pc' = "tud"
       ELSE /\ polls' = polls
            /\ pc' = "done"
    /\ UNCHANGED <<lcdfb, fb, gfx_fbaddr, pset_cb, fore_color, la,
                   max_app_addr, load_res, heap_start, flush_reg, trace, p,
                   buf, drawn, i, msc_on, iters, calls>>

\* the inner loop with the test i <= 500
UsbPoll_le ==
    /\ pc = "usb"
    /\ IF i <= NPOLL
       THEN /\ polls' = [polls EXCEPT !.usb = @ + 1]
            /\ pc' = "tud"
       ELSE /\ polls' = polls
            /\ pc' = "loop"
    /\ UNCHANGED <<lcdfb, fb, gfx_fbaddr, pset_cb, fore_color, la,
                   max_app_addr, load_res, heap_start, flush_reg, trace, p,
                   buf, drawn, i, msc_on, iters, calls>>

\* lines 107-108: the loop test, then usb_poll() or the exit of the inner loop
UsbPoll ==
    /\ pc = "usb"
    /\ IF i < NPOLL
       THEN /\ polls' = [polls EXCEPT !.usb = @ + 1]
            /\ pc' = "tud"
       ELSE /\ polls' = polls
            /\ pc' = "loop"
    /\ UNCHANGED <<lcdfb, fb, gfx_fbaddr, pset_cb, fore_color, la,
                   max_app_addr, load_res, heap_start, flush_reg, trace, p,
                   buf, drawn, i, msc_on, iters, calls>>

\* lines 109, 107: tud_task(), then i++
TudTask ==
    /\ pc = "tud"
    /\ polls' = [polls EXCEPT !.tud = @ + 1]
    /\ i' = i + 1
    /\ pc' = "usb"
    /\ UNCHANGED <<lcdfb, fb, gfx_fbaddr, pset_cb, fore_color, la,
                   max_app_addr, load_res, heap_start, flush_reg, trace, p,
                   buf, drawn, msc_on, iters, calls>>

Next ==
    \/ AllocFramebuffer
    \/ InitGui
    \/ LoadApp
    \/ LoadHalts
    \/ SetHeapStart
    \/ CallApp
    \/ AppReturns
    \/ AppNeverReturns
    \/ DrawHello
    \/ DrawNarf
    \/ DrawTest
    \/ CountAndDraw
    \/ FlushFramebuffer
    \/ UsbPoll
    \/ TudTask

Spec == Init /\ [][Next]_vars

(***************************************************************************)
(* The diagnostic loop on its own, from the state in which main enters it  *)
(* (line 101): the CPU keeps executing, and every call returns.            *)
(***************************************************************************)
InitLive ==
    /\ pc = "loop"
    /\ lcdfb \in HeapAddrs
    /\ fb = UG_PutString(lcdfb,
                UG_PutString(lcdfb,
                    UG_PutString(lcdfb, EmptyMem, 0, 0, 12, C_WHITE, 1),
                    0, 320 - 20, 5, C_WHITE, 1),
                0, 16, 106, C_GREEN, 1)
    /\ gfx_fbaddr = lcdfb % (2 ^ 23)
    /\ pset_cb = "lcd_pset"
    /\ fore_color = C_GREEN
    /\ calls = <<>>
    /\ la = MACH_RAM_START + 8192
    /\ max_app_addr = MACH_RAM_START + 40960
    /\ load_res = <<[ok |-> TRUE, entry |-> la, max |-> max_app_addr]>>
    /\ heap_start = <<max_app_addr>>
    /\ flush_reg = <<>>
    /\ trace = <<<<"alloc", lcdfb>>, <<"load">>, <<"heap", max_app_addr>>,
                  <<"entry", la, 0, NULL>>, <<"return">>>>
    /\ p = 0 /\ buf = <<>> /\ drawn = <<>> /\ i = 0
    /\ polls = [usb |-> 0, tud |-> 0]
    /\ msc_on = TRUE /\ iters = 0

NextLive ==
    \/ CountAndDraw
    \/ FlushFramebuffer
    \/ UsbPoll
    \/ TudTask

SpecLive == InitLive /\ [][NextLive]_vars /\ WF_vars(NextLive)

(***************************************************************************)
(* Claims about the handoff and the diagnostic loop                        *)
(***************************************************************************)
Calls(op) == {k \in DOMAIN trace : trace[k][1] = op}
Loaded == load_res # <<>> /\ load_res[1].ok
LoadFailed == load_res # <<>> /\ ~load_res[1].ok

\* C1: when the loader has returned {entry_address: E, max_used_address: M},
\* every sbrk_app_set_heap_start call comes after the load and passes M, and
\* such a call precedes the invocation of the entry point.
C1_HeapStart ==
    /\ \A h \in Calls("heap") :
          /\ \E l \in Calls("load") : l < h
          /\ Loaded => trace[h][2] = load_res[1].max
    /\ \A e \in Calls("entry") :
          Loaded => \E h \in Calls("heap") :
                       h < e /\ trace[h][2] = load_res[1].max
    /\ (Loaded /\ heap_start # <<>>) => heap_start = <<load_res[1].max>>

\* the entry point of a loaded image has been invoked
C1_Witness ==
    /\ Loaded
    /\ pc = "app"
    /\ Calls("entry") # {}
    /\ heap_start = <<load_res[1].max>>
    /\ load_res[1].max # load_res[1].entry

\* a flush register write asks for at least the RAM offsets [from, to]
Covers(w, from, to) == Le32(FlushFrom(w), from) /\ Le32(to, FlushTo(w))

\* C2 as stated: when the entry point of a loaded image is invoked, a cache
\* flush covering at least [RAM base, M] has been requested since the load.
C2_FlushBeforeEntry ==
    \A e \in Calls("entry") :
        Loaded =>
          \E l \in Calls("load"), f \in Calls("flush") :
              /\ l < f /\ f < e
              /\ Covers(<<trace[f][2], trace[f][3]>>, 0,
                        Sub32(load_res[1].max, MACH_RAM_START))

\* C3 as stated: when the loader has reported failure, the entry point is not
\* invoked and sbrk_app_set_heap_start is not called.
C3_NoHandoffOnFailure ==
    LoadFailed => (Calls("entry") = {} /\ Calls("heap") = {})

\* C9 as stated: while the transport is being serviced in an outer iteration,
\* the flush requested after the counter draw covers every byte of the
\* 320*512/2-byte framebuffer.
C9_FlushCoversFramebuffer ==
    (pc \in {"usb", "tud"} /\ lcdfb # NULL) =>
        /\ flush_reg # <<>>
        /\ Covers(flush_reg, Sub32(lcdfb, MACH_RAM_START),
                  Sub32(lcdfb + (320 * 512) \div 2, MACH_RAM_START))

\* the decimal digit a character stands for
DigitOf(ch) == CHOOSE d \in 0..9 : DigitChar(d) = ch

\* minus the number a string of digits denotes
RECURSIVE NegValue(_)
NegValue(str) ==
    IF Len(str) = 0 THEN 0
    ELSE NegValue(SubSeq(str, 1, Len(str) - 1)) * 10
           - DigitOf(SubSeq(str, Len(str), Len(str)))

IsDigits(str) ==
    /\ Len(str) > 0
    /\ \A k \in 1..Len(str) : \E d \in 0..9 : DigitChar(d) = SubSeq(str, k, k)
    /\ (Len(str) > 1 => SubSeq(str, 1, 1) # "0")

\* str is the decimal representation of n
IsDecimalOf(str, n) ==
    IF Len(str) > 0 /\ SubSeq(str, 1, 1) = "-"
    THEN LET ds == SubSeq(str, 2, Len(str))
         IN  IsDigits(ds) /\ n < 0 /\ NegValue(ds) = n
    ELSE IsDigits(str) /\ n >= 0 /\ NegValue(str) = -n

\* C10 as stated: in every outer iteration the counter ends exactly 1 above
\* the value it had at the start, and the text drawn is its decimal
\* representation.
C10_CounterStep ==
    drawn # <<>> =>
        /\ drawn[1].after > INT_MIN
        /\ drawn[1].after - 1 = drawn[1].before
        /\ IsDecimalOf(drawn[1].text, drawn[1].after)

\* the text drawn is the decimal representation of the counter, whatever the
\* increment left in it
CounterTextIsDecimal ==
    drawn # <<>> => IsDecimalOf(drawn[1].text, drawn[1].after)

\* C11: between two successive counter draws usb_poll and tud_task are each
\* called exactly 500 times, alternating with usb_poll first, and neither is
\* called between a draw and the cache flush that follows it.
C11_PollsBetweenDraws ==
    /\ pc = "flush" => (polls.usb = 0 /\ polls.tud = 0)
    /\ pc = "usb" => (polls.usb = polls.tud /\ polls.usb <= 500)
    /\ pc = "tud" => (polls.usb = polls.tud + 1 /\ polls.usb <= 500)
    /\ (pc = "loop" /\ iters >= 1) => (polls.usb = 500 /\ polls.tud = 500)
    /\ (drawn # <<>> /\ iters >= 2) =>
          (drawn[1].since.usb = 500 /\ drawn[1].since.tud = 500)

\* a second counter draw has been made
C11_Witness ==
    /\ iters = 2
    /\ pc = "flush"
    /\ drawn[1].since.usb = 500
    /\ drawn[1].since.tud = 500

\* the handoff calls of main, in order
Handoff == SelectSeq(trace, LAMBDA e : e[1] \in {"load", "heap", "entry", "return"})

IsPrefix(s, t) == Len(s) <= Len(t) /\ \A k \in 1..Len(s) : s[k] = t[k]

\* C12: the loader is asked to load at most once and exactly once by the time
\* the heap start is set; the entry point is invoked at most once, after the
\* load, at the address the loader returned, with argc = 0 and
\* argv = NULL; the handoff goes load, heap start, entry, return and never back.
C12_HandoffOnce ==
    /\ IsPrefix([k \in 1..Len(Handoff) |-> Handoff[k][1]],
                <<"load", "heap", "entry", "return">>)
    /\ Cardinality(Calls("load")) <= 1
    /\ Cardinality(Calls("entry")) <= 1
    /\ (pc \notin {"start", "uginit", "load"}) => Cardinality(Calls("load")) = 1
    /\ \A e \in Calls("entry") :
          /\ trace[e][3] = 0
          /\ trace[e][4] = 0
          /\ load_res # <<>>
          /\ trace[e][2] = load_res[1].entry

\* the application of a loaded image was entered and has returned
C12_Witness ==
    /\ Loaded
    /\ pc = "usb"
    /\ Cardinality(Calls("entry")) = 1
    /\ Calls("return") # {}
    /\ load_res[1].entry # load_res[1].max

DiagnosticPcs == {"hello", "narf", "test", "loop", "flush", "usb", "tud"}

\* C13: as long as the application has not returned, which includes the case
\* that it never returns, main has drawn nothing, requested no cache flush,
\* polled no transport and not enabled mass storage; once it has returned, the
\* load, the heap start call and the entry each stay the single one made before
\* the return, and the heap start stays what that call set.
C13_DiagnosticAfterReturn ==
    /\ Calls("return") = {} =>
          /\ pc \notin DiagnosticPcs
          /\ fb \in MemAfterCalloc(lcdfb)
          /\ drawn = <<>>
          /\ Calls("flush") = {} /\ flush_reg = <<>>
          /\ polls.usb = 0 /\ polls.tud = 0
          /\ msc_on = FALSE
    /\ pc = "never" => Calls("return") = {}
    /\ \A r \in Calls("return") :
          /\ Cardinality(Calls("load")) = 1
          /\ Cardinality(Calls("heap")) = 1
          /\ Cardinality(Calls("entry")) = 1
          /\ \A k \in Calls("load") \cup Calls("heap") \cup Calls("entry") : k < r
          /\ \A h \in Calls("heap") : heap_start = <<trace[h][2]>>

\* after the return main has drawn, flushed and polled
C13_Witness ==
    /\ Calls("return") # {}
    /\ pc = "tud"
    /\ iters = 2
    /\ msc_on
    /\ fb \notin MemAfterCalloc(lcdfb)

LoopPcs == {"loop", "flush", "usb", "tud"}

\* C14: once main is in the diagnostic loop it stays in it; from the top of
\* the loop the counter is drawn and the framebuffer then flushed, and after
\* each flush the polling loop ends and main is at the top of the loop again
\* (for every iteration the model's bound on the counter admits).
C14_LoopForever ==
    /\ [][(pc \in LoopPcs) => (pc' \in LoopPcs)]_vars
    /\ \A k \in 0..(MaxIter - 1) :
          (pc = "loop" /\ iters = k) ~>
              (/\ iters = k + 1 /\ pc = "usb" /\ i = 0
               /\ Len(drawn) = 1
               /\ Cardinality(Calls("flush")) = k + 1)
    /\ \A k \in 1..MaxIter :
          (iters = k /\ pc = "usb" /\ i = 0) ~> (pc = "loop" /\ iters = k)

\* the second draw of the loop has been flushed
C14_Witness ==
    /\ iters = 2
    /\ pc = "usb" /\ i = 0
    /\ Cardinality(Calls("flush")) = 2

\* C15 as stated: for every call with 0 <= x <= 480, 0 <= y <= 320 and an
\* allocated framebuffer, the byte index (x + y*512)/2 lies inside the buffer
\* of 320*512/2 bytes, and no call changes a byte outside the buffer.
C15_IndexInsideBuffer ==
    /\ \A k \in 1..Len(calls) :
          LET r == calls[k]
          IN  (lcdfb # NULL /\ r.x \in 0..480 /\ r.y \in 0..320) =>
                 ((r.x + r.y * 512) \div 2) \in 0..(((320 * 512) \div 2) - 1)
    /\ \A k \in 1..Len(calls) :
          \A b \in (DOMAIN calls[k].before) \cup (DOMAIN After(k)) :
              b \notin 0..(((320 * 512) \div 2) - 1) =>
                  Load(After(k), b) = Load(calls[k].before, b)

\* the accepted calls that wrote pixel (x, y), by position in the call log
WritesTo(x, y) ==
    {k \in 1..Len(calls) :
        /\ lcdfb # NULL
        /\ calls[k].x \in 0..480 /\ calls[k].y \in 0..320
        /\ calls[k].x = x /\ calls[k].y = y}

LastWrite(x, y) == CHOOSE k \in WritesTo(x, y) : \A j \in WritesTo(x, y) : j <= k

\* the abstract per-pixel map: the encoding of the last colour written, else 0
AbstractNib(x, y) ==
    IF WritesTo(x, y) = {} THEN 0 ELSE Encode(calls[LastWrite(x, y)].c)

\* the nibble the packed buffer holds for pixel (x, y)
PackedNib(x, y) ==
    LET v == Load(fb, (x + y * 512) \div 2)
    IN  IF x % 2 = 0 THEN LowNib(v) ELSE HighNib(v)

\* the bytes of the buffer that are not 0 or that a logged call addressed; every
\* other byte of the buffer is 0 and no logged call wrote either of its pixels
TouchedBytes ==
    {b \in (DOMAIN fb) \cup
           {(calls[k].x + calls[k].y * 512) \div 2 : k \in 1..Len(calls)} :
        b \in 0..(((320 * 512) \div 2) - 1)}

\* C16: from the zero-filled buffer, after any sequence of lcd_pset calls every
\* pixel stored inside the buffer holds the encoding of the colour of the last
\* accepted write to that pixel, or 0 if it was never written.
C16_PackedIsPixelMap ==
    \A b \in TouchedBytes : \A h \in {0, 1} :
        LET x == (2 * b + h) % 512
            y == (2 * b + h) \div 512
        IN  PackedNib(x, y) = AbstractNib(x, y)

\* pixel (0,0) was written twice with colours of different encodings, and its
\* neighbour in the same byte was never written
C16_Witness ==
    /\ Len(calls) = 2 /\ lcdfb # NULL
    /\ calls[1].x = 0 /\ calls[1].y = 0 /\ calls[2].x = 0 /\ calls[2].y = 0
    /\ Encode(calls[1].c) # 0
    /\ Encode(calls[2].c) # 0
    /\ Encode(calls[1].c) # Encode(calls[2].c)
    /\ PackedNib(0, 0) = Encode(calls[2].c)
    /\ PackedNib(1, 0) = 0

\* a 32-bit pattern as its two unsigned 16-bit halves <<high, low>>, and
\* unsigned addition, subtraction and & ~3 modulo 2^32 on such pairs
Halves(v) == <<(v \div 65536) % 65536, v % 65536>>
HAdd(a, b) ==
    LET lo == a[2] + b[2]
        hi == a[1] + b[1] + (IF lo >= 65536 THEN 1 ELSE 0)
    IN  <<hi % 65536, lo % 65536>>
HSub(a, b) ==
    LET lo == a[2] - b[2]
        hi == a[1] - b[1] - (IF lo < 0 THEN 1 ELSE 0)
    IN  <<hi % 65536, lo % 65536>>
HMask(a) == <<a[1], a[2] - (a[2] % 4)>>

\* C17: a call cache_flush(start, end) makes one register write and returns:
\* the register is at 0x41000000 + ((start & ~3) - 0x40000000) and the value
\* written is end - 0x40000000, both modulo 2^32.
C17_FlushWrite ==
    /\ pc = "call" => (Calls("flush") = {} /\ flush_reg = <<>>)
    /\ pc = "returned" => Cardinality(Calls("flush")) = 1
    /\ \A f \in Calls("flush") :
          LET e == trace[f]
          IN  /\ flush_reg = <<e[2], e[3]>>
              /\ e[2] \in (-2147483647 - 1)..2147483647
              /\ e[3] \in (-2147483647 - 1)..2147483647
              /\ Halves(e[2]) =
                    HAdd(Halves(1090519040),
                         HSub(HMask(Halves(e[4])), Halves(1073741824)))
              /\ Halves(e[3]) = HSub(Halves(e[5]), Halves(1073741824))

\* cache_flush(0xFFFFFFFF, 0): the register address wraps to 0x00FFFFFC and the
\* value to 0xC0000000
C17_Witness ==
    /\ pc = "returned"
    /\ \E f \in Calls("flush") :
          /\ trace[f][4] = -1 /\ trace[f][5] = 0
          /\ trace[f][2] = 16777212
          /\ trace[f][3] = -1073741824

\* C18: main allocates the framebuffer once, before it registers lcd_pset
\* with the GUI layer and before anything is drawn; from then on lcdfb keeps
\* the pointer that allocation returned, and no step allocates again.
C18_AllocatedOnce ==
    /\ [](/\ pc = "start" <=> Calls("alloc") = {}
          /\ Cardinality(Calls("alloc")) <= 1
          /\ Calls("alloc") = {} =>
                /\ lcdfb = 0
                /\ pset_cb = "none"
                /\ fb = EmptyMem /\ drawn = <<>>
          /\ \A a \in Calls("alloc") :
                /\ lcdfb = trace[a][2]
                /\ gfx_fbaddr = lcdfb % (2 ^ 23)
                /\ \A k \in 1..Len(trace) : k # a => a < k)
    /\ [][pc # "start" => (lcdfb' = lcdfb /\ gfx_fbaddr' = gfx_fbaddr
                           /\ Calls("alloc")' = Calls("alloc"))]_vars
    /\ [][pset_cb' # pset_cb => Calls("alloc") # {}]_vars

\* the counter has been drawn into the framebuffer allocated at boot
C18_Witness ==
    /\ pc = "flush" /\ iters = 1
    /\ lcdfb # 0
    /\ pset_cb = "lcd_pset"
    /\ fb \notin MemAfterCalloc(lcdfb)
    /\ Calls("alloc") = {1}
    /\ trace[1][2] = lcdfb

====
